---- MODULE Spec2Model ----
(***************************************************************************)
(* Model of HW_6_exercise.py: a command-line address book.                 *)
(*                                                                         *)
(* Text is modelled as sequences of one-character strings, so that         *)
(* str.split, str.lower, re.fullmatch and datetime.strptime are computed   *)
(* character by character.  A date is a triple <<year, month, day>>; the   *)
(* Python value None for a birthday is the empty sequence <<>>.            *)
(* The AddressBook (an insertion-ordered dict) is a sequence of Records    *)
(* with pairwise different names.                                          *)
(***************************************************************************)
EXTENDS Integers, Sequences, FiniteSets, TLC

VARIABLES book, file, pc, user_input, out, today, reads, writes, snapshot, session

vars == <<book, file, pc, user_input, out, today, reads, writes, snapshot, session>>

-----------------------------------------------------------------------------
(* Bounds of the model *)

MaxPhones == 2

MaxSessions == 2

MaxBook == 2

-----------------------------------------------------------------------------
(* Characters and strings *)

Digit == {"0", "1", "2", "3", "4", "5", "6", "7", "8", "9"}

DigitVal(c) ==
  CASE c = "0" -> 0 [] c = "1" -> 1 [] c = "2" -> 2 [] c = "3" -> 3
    [] c = "4" -> 4 [] c = "5" -> 5 [] c = "6" -> 6 [] c = "7" -> 7
    [] c = "8" -> 8 [] c = "9" -> 9

DigitChar(n) == <<"0", "1", "2", "3", "4", "5", "6", "7", "8", "9">>[n + 1]

Whitespace == {" ", "\t"}

UpperChars == <<"A", "B", "C", "D", "E", "F", "G", "H", "I", "J", "K", "L", "M",
                "N", "O", "P", "Q", "R", "S", "T", "U", "V", "W", "X", "Y", "Z">>

LowerChars == <<"a", "b", "c", "d", "e", "f", "g", "h", "i", "j", "k", "l", "m",
                "n", "o", "p", "q", "r", "s", "t", "u", "v", "w", "x", "y", "z">>

\* str.lower(), one character at a time
str_lower(s) ==
  [i \in 1..Len(s) |->
     IF \E k \in 1..26 : UpperChars[k] = s[i]
       THEN LowerChars[CHOOSE k \in 1..26 : UpperChars[k] = s[i]]
       ELSE s[i]]

RECURSIVE SplitFrom(_, _, _, _, _)
\* the tokens of s[i..], cut at every character of seps; cur is the token
\* being read, acc the tokens read so far.  Cutting at whitespace drops the
\* empty tokens (str.split()), cutting at anything else keeps them.
SplitFrom(s, i, cur, acc, seps) ==
  IF i > Len(s)
    THEN IF cur = <<>> /\ seps = Whitespace THEN acc ELSE Append(acc, cur)
    ELSE IF s[i] \in seps
      THEN IF cur = <<>> /\ seps = Whitespace
             THEN SplitFrom(s, i + 1, <<>>, acc, seps)
             ELSE SplitFrom(s, i + 1, <<>>, Append(acc, cur), seps)
      ELSE SplitFrom(s, i + 1, Append(cur, s[i]), acc, seps)

\* str.split(): cut at runs of whitespace, no empty tokens
str_split(s) == SplitFrom(s, 1, <<>>, <<>>, Whitespace)

\* the fields of s between the dots, empty fields kept
DotFields(s) == SplitFrom(s, 1, <<>>, <<>>, {"."})

IsDigits(s) == \A i \in 1..Len(s) : s[i] \in Digit

RECURSIVE ToInt(_)
ToInt(s) == IF s = <<>> THEN 0
            ELSE 10 * ToInt(SubSeq(s, 1, Len(s) - 1)) + DigitVal(s[Len(s)])

RECURSIVE ToDigits(_)
\* decimal digits of n >= 0, no padding
ToDigits(n) == IF n < 10 THEN <<DigitChar(n)>>
               ELSE Append(ToDigits(n \div 10), DigitChar(n % 10))

-----------------------------------------------------------------------------
(* Dates *)

IsLeap(y) == (y % 4 = 0 /\ y % 100 # 0) \/ y % 400 = 0

DaysInMonth(y, m) ==
  IF m = 2 THEN (IF IsLeap(y) THEN 29 ELSE 28)
  ELSE IF m \in {4, 6, 9, 11} THEN 30 ELSE 31

DateValid(y, m, d) ==
  /\ y >= 1 /\ y <= 9999
  /\ m \in 1..12
  /\ d >= 1 /\ d <= DaysInMonth(y, m)

\* date.__le__: dates compare as (year, month, day)
date_le(a, b) ==
  \/ a[1] < b[1]
  \/ a[1] = b[1] /\ a[2] < b[2]
  \/ a[1] = b[1] /\ a[2] = b[2] /\ a[3] <= b[3]

NextDay(dt) ==
  IF dt[3] < DaysInMonth(dt[1], dt[2]) THEN <<dt[1], dt[2], dt[3] + 1>>
  ELSE IF dt[2] < 12 THEN <<dt[1], dt[2] + 1, 1>>
  ELSE <<dt[1] + 1, 1, 1>>

RECURSIVE timedelta_add(_, _)
\* date + timedelta(days = n)
timedelta_add(dt, n) == IF n = 0 THEN dt ELSE timedelta_add(NextDay(dt), n - 1)

\* date.replace that moves 29 February to 28 February in a year without it
date_replace_clamped(dt, y) ==
  IF DateValid(y, dt[2], dt[3]) THEN <<y, dt[2], dt[3]>>
  ELSE <<y, dt[2], DaysInMonth(y, dt[2])>>

\* date.replace(year = y): the date, or <<>> when it raises ValueError
date_replace(dt, y) ==
  IF DateValid(y, dt[2], dt[3]) THEN <<y, dt[2], dt[3]>> ELSE <<>>

\* datetime.strptime(value, '%d.%m.%Y').date(): the date, or <<>> when it
\* raises ValueError.  %d and %m take one or two digits, %Y exactly four.
strptime(value) ==
  LET f == DotFields(value) IN
    IF /\ Len(f) = 3
       /\ Len(f[1]) \in {1, 2} /\ IsDigits(f[1])
       /\ Len(f[2]) \in {1, 2} /\ IsDigits(f[2])
       /\ Len(f[3]) = 4 /\ IsDigits(f[3])
       /\ DateValid(ToInt(f[3]), ToInt(f[2]), ToInt(f[1]))
      THEN <<ToInt(f[3]), ToInt(f[2]), ToInt(f[1])>>
      ELSE <<>>

-----------------------------------------------------------------------------
(* Field values, Record, AddressBook *)

\* Phone.__init__: re.fullmatch(r"\d{10}", value)
PhoneValid(value) == Len(value) = 10 /\ IsDigits(value)

\* Record.__init__
Record(name) == [name |-> name, phones |-> <<>>, birthday |-> <<>>]

\* Record.add_phone: exc names the exception raised, "" for none
Record_add_phone(rec, phone) ==
  IF PhoneValid(phone)
    THEN [exc |-> "", rec |-> [rec EXCEPT !.phones = Append(@, phone)]]
    ELSE [exc |-> "ValueError", rec |-> rec]

\* index of the first phone equal to number, 0 when there is none
FirstPhone(rec, number) ==
  IF \E i \in 1..Len(rec.phones) : rec.phones[i] = number
    THEN CHOOSE i \in 1..Len(rec.phones) :
           /\ rec.phones[i] = number
           /\ \A j \in 1..(i - 1) : rec.phones[j] # number
    ELSE 0

\* Record.edit_phone
Record_edit_phone(rec, old_number, new_number) ==
  LET i == FirstPhone(rec, old_number) IN
    IF i # 0
      THEN [exc |-> "", rec |-> [rec EXCEPT !.phones[i] = new_number]]
      ELSE [exc |-> "ValueError", rec |-> rec]

\* Record.add_birthday with Birthday.__init__
Record_add_birthday(rec, birthday) ==
  LET dt == strptime(birthday) IN
    IF dt # <<>>
      THEN [exc |-> "", rec |-> [rec EXCEPT !.birthday = dt]]
      ELSE [exc |-> "ValueError", rec |-> rec]

\* position of name among the keys of the book, 0 when absent
KeyIndex(b, name) ==
  IF \E i \in 1..Len(b) : b[i].name = name
    THEN CHOOSE i \in 1..Len(b) : b[i].name = name
    ELSE 0

\* AddressBook.find: the position of the Record, 0 for None
find(b, name) == KeyIndex(b, name)

\* AddressBook.add_record: a new key goes last, an old key keeps its place
add_record(b, record) ==
  IF KeyIndex(b, record.name) = 0
    THEN Append(b, record)
    ELSE [b EXCEPT ![KeyIndex(b, record.name)] = record]

\* the window without its last day: today <= birthday < today + timedelta(days)
InWindow_open(tdy, birthday, days) ==
  /\ date_le(tdy, birthday)
  /\ date_le(birthday, timedelta_add(tdy, days))
  /\ birthday # timedelta_add(tdy, days)

\* line 129: today <= birthday <= today + timedelta(days)
InWindow(tdy, birthday, days) ==
  date_le(tdy, birthday) /\ date_le(birthday, timedelta_add(tdy, days))

RECURSIVE UpcomingFrom(_, _, _, _, _)
\* the loop of get_upcoming_birthdays from Record i on; acc is
\* upcoming_birthdays so far
UpcomingFrom(b, i, tdy, days, acc) ==
  IF i > Len(b) THEN [exc |-> "", recs |-> acc]
  ELSE IF b[i].birthday = <<>> THEN UpcomingFrom(b, i + 1, tdy, days, acc)
  ELSE LET birthday == date_replace(b[i].birthday, tdy[1]) IN
    IF birthday = <<>> THEN [exc |-> "ValueError", recs |-> <<>>]
    ELSE IF InWindow(tdy, birthday, days)
      THEN UpcomingFrom(b, i + 1, tdy, days, Append(acc, b[i]))
      ELSE UpcomingFrom(b, i + 1, tdy, days, acc)

\* get_upcoming_birthdays(self, days=7)
DefaultDays == 7

\* AddressBook.get_upcoming_birthdays(days), today read from the clock
get_upcoming_birthdays(b, tdy, days) == UpcomingFrom(b, 1, tdy, days, <<>>)

-----------------------------------------------------------------------------
(* Persistence.  The pickle stream is a sequence of tokens: "R" and the    *)
(* name open a Record, each phone follows a "P", and the Record ends with  *)
(* "B" and the year, month and day in decimal, or with "N" for no birthday *)

NoFile == [exists |-> FALSE, data |-> <<>>]

DumpDate(dt) == <<ToDigits(dt[1]), ToDigits(dt[2]), ToDigits(dt[3])>>

RECURSIVE DumpPhones(_)
DumpPhones(phones) ==
  IF phones = <<>> THEN <<>>
  ELSE <<(<<"P">>), Head(phones)>> \o DumpPhones(Tail(phones))

\* a dump that loses the birthday
DumpRecord_no_birthday(rec) ==
  <<(<<"R">>), rec.name>> \o DumpPhones(rec.phones) \o <<(<<"N">>)>>

DumpRecord(rec) ==
  <<(<<"R">>), rec.name>> \o DumpPhones(rec.phones)
    \o (IF rec.birthday = <<>> THEN <<(<<"N">>)>>
        ELSE <<(<<"B">>)>> \o DumpDate(rec.birthday))

RECURSIVE pickle_dump(_)
pickle_dump(b) == IF b = <<>> THEN <<>>
                  ELSE DumpRecord(Head(b)) \o pickle_dump(Tail(b))

RECURSIVE LoadPhones(_, _, _)
\* the phones that start at token j, and the position after them
LoadPhones(data, j, acc) ==
  IF j <= Len(data) /\ data[j] = <<"P">>
    THEN LoadPhones(data, j + 2, Append(acc, data[j + 1]))
    ELSE [next |-> j, phones |-> acc]

RECURSIVE pickle_load(_, _, _)
pickle_load(data, i, acc) ==
  IF i > Len(data) THEN acc
  ELSE LET ph == LoadPhones(data, i + 2, <<>>)
           j  == ph.next
       IN IF data[j] = <<"B">>
            THEN pickle_load(data, j + 4,
                   Append(acc, [name |-> data[i + 1], phones |-> ph.phones,
                                birthday |-> <<ToInt(data[j + 1]),
                                               ToInt(data[j + 2]),
                                               ToInt(data[j + 3])>>]))
            ELSE pickle_load(data, j + 1,
                   Append(acc, [name |-> data[i + 1], phones |-> ph.phones,
                                birthday |-> <<>>]))

\* save_data: the file is overwritten with the whole book
save_data(b) == [exists |-> TRUE, data |-> pickle_dump(b)]

\* load_data: FileNotFoundError gives a new AddressBook()
load_data(f) == IF f.exists THEN pickle_load(f.data, 1, <<>>) ELSE <<>>

-----------------------------------------------------------------------------
(* Command handlers.  A handler yields the book it leaves behind, the      *)
(* exception it raises ("" for none) and the value it returns.             *)

MsgIndexError == "Not enough arguments. Please follow the command format."

MsgValueError == "Incorrect data. Make sure you enter the right data types."

MsgKeyError == "Contact not found."

Reply(msg, toks, recs) == [msg |-> msg, toks |-> toks, recs |-> recs]

NoReply == Reply("", <<>>, <<>>)

Raise(b, exc) == [book |-> b, exc |-> exc, ret |-> NoReply]

Return(b, ret) == [book |-> b, exc |-> "", ret |-> ret]

\* the decorator input_error: what the wrapped handler returns
input_error(res) ==
  IF res.exc = "IndexError" THEN Reply(MsgIndexError, <<>>, <<>>)
  ELSE IF res.exc = "ValueError" THEN Reply(MsgValueError, <<>>, <<>>)
  ELSE IF res.exc = "KeyError" THEN Reply(MsgKeyError, <<>>, <<>>)
  ELSE res.ret

\* parse_input: cmd, *args = user_input.split() raises ValueError on no token
parse_input(line) ==
  LET toks == str_split(line) IN
    IF toks = <<>> THEN [exc |-> "ValueError", cmd |-> <<>>, args |-> <<>>]
    ELSE [exc |-> "", cmd |-> str_lower(Head(toks)), args |-> Tail(toks)]

\* add_contact without the lookup: a new Record takes the place of the old
add_contact_always_new(args, b) ==
  IF Len(args) < 2 THEN Raise(b, "ValueError")
  ELSE LET name  == args[1]
           phone == args[2]
           b1    == add_record(b, Record(name))
           k     == find(b1, name)
           r     == Record_add_phone(b1[k], phone)
       IN IF r.exc # "" THEN Raise(b1, r.exc)
          ELSE Return([b1 EXCEPT ![k] = r.rec],
                      Reply(IF find(b, name) = 0 THEN "Contact added."
                            ELSE "Contact updated.", <<>>, <<>>))

\* add_contact: name, phone, *_ = args raises ValueError on fewer than two
add_contact(args, b) ==
  IF Len(args) < 2 THEN Raise(b, "ValueError")
  ELSE LET name    == args[1]
           phone   == args[2]
           isNew   == find(b, name) = 0
           b1      == IF isNew THEN add_record(b, Record(name)) ELSE b
           message == IF isNew THEN "Contact added." ELSE "Contact updated."
           k       == find(b1, name)
           r       == Record_add_phone(b1[k], phone)
       IN IF phone = <<>> THEN Return(b1, Reply(message, <<>>, <<>>))
          ELSE IF r.exc # "" THEN Raise(b1, r.exc)
          ELSE Return([b1 EXCEPT ![k] = r.rec], Reply(message, <<>>, <<>>))

change_contact(args, b) ==
  IF Len(args) # 3 THEN Raise(b, "IndexError")
  ELSE LET k == find(b, args[1]) IN
    IF k = 0 THEN Raise(b, "KeyError")
    ELSE LET r == Record_edit_phone(b[k], args[2], args[3]) IN
      IF r.exc # "" THEN Raise(b, r.exc)
      ELSE Return([b EXCEPT ![k] = r.rec],
                  Reply("Phone updated.", args, <<>>))

show_phone(args, b) ==
  IF Len(args) # 1 THEN Raise(b, "IndexError")
  ELSE LET k == find(b, args[1]) IN
    IF k = 0 THEN Raise(b, "KeyError")
    ELSE Return(b, Reply("Phones.", <<args[1]>> \o b[k].phones, <<>>))

show_all(b) ==
  IF b = <<>> THEN Return(b, Reply("No contacts.", <<>>, <<>>))
  ELSE Return(b, Reply("Contacts.", <<>>, b))

add_birthday(args, b) ==
  IF Len(args) # 2 THEN Raise(b, "IndexError")
  ELSE LET k == find(b, args[1]) IN
    IF k = 0 THEN Raise(b, "KeyError")
    ELSE LET r == Record_add_birthday(b[k], args[2]) IN
      IF r.exc # "" THEN Raise(b, r.exc)
      ELSE Return([b EXCEPT ![k] = r.rec],
                  Reply("Birthday added.", args, <<>>))

show_birthday(args, b) ==
  IF Len(args) # 1 THEN Raise(b, "IndexError")
  ELSE LET k == find(b, args[1]) IN
    IF k = 0 THEN Raise(b, "KeyError")
    ELSE IF b[k].birthday # <<>>
      THEN Return(b, Reply("Birthday is on.", args, <<b[k]>>))
      ELSE Return(b, Reply("No birthday set.", args, <<>>))

\* birthdays, with the date get_upcoming_birthdays reads from the clock
birthdays(args, b, tdy) ==
  LET upcoming_birthdays == get_upcoming_birthdays(b, tdy, DefaultDays) IN
    IF upcoming_birthdays.exc # "" THEN Raise(b, upcoming_birthdays.exc)
    ELSE IF upcoming_birthdays.recs = <<>>
      THEN Return(b, Reply("No birthdays in the next week.", <<>>, <<>>))
      ELSE Return(b, Reply("Upcoming birthdays.", <<>>, upcoming_birthdays.recs))

-----------------------------------------------------------------------------
(* Input: the words of the command language and the lines typed *)

T_add == <<"a", "d", "d">>

T_ADD == <<"A", "D", "D">>

T_change == <<"c", "h", "a", "n", "g", "e">>

T_phone == <<"p", "h", "o", "n", "e">>

T_all == <<"a", "l", "l">>

T_add_birthday == <<"a", "d", "d", "-", "b", "i", "r", "t", "h", "d", "a", "y">>

T_show_birthday == <<"s", "h", "o", "w", "-", "b", "i", "r", "t", "h", "d", "a", "y">>

T_birthdays == <<"b", "i", "r", "t", "h", "d", "a", "y", "s">>

T_hello == <<"h", "e", "l", "l", "o">>

T_close == <<"c", "l", "o", "s", "e">>

T_exit == <<"e", "x", "i", "t">>

T_Exit == <<"E", "x", "i", "t">>

T_foo == <<"f", "o", "o">>

Alice == <<"A", "l", "i", "c", "e">>

Bob == <<"B", "o", "b">>

Carol == <<"C", "a", "r", "o", "l">>

P1 == <<"1", "1", "1", "1", "1", "1", "1", "1", "1", "1">>

P2 == <<"2", "2", "2", "2", "2", "2", "2", "2", "2", "2">>

BadPhone == <<"1", "2", "3", "4", "5">>

D_Feb29 == <<"2", "9", ".", "0", "2", ".", "2", "0", "2", "4">>

D_Jun15 == <<"1", "5", ".", "0", "6", ".", "1", "9", "9", "0">>

D_Bad == <<"3", "1", ".", "0", "2", ".", "2", "0", "2", "4">>

RECURSIVE Line(_)
\* the tokens joined by single blanks
Line(toks) == IF toks = <<>> THEN <<>>
              ELSE IF Len(toks) = 1 THEN Head(toks)
              ELSE Head(toks) \o <<" ">> \o Line(Tail(toks))

\* the lines typed in a session
Lines ==
  {<<>>, <<" ", "\t">>}
  \cup {Line(<<c>>) : c \in {T_hello, T_foo, T_all, T_birthdays, T_close, T_Exit,
                             T_add, T_change, T_phone, T_add_birthday,
                             T_show_birthday}}
  \cup {Line(<<T_add, Alice>>), Line(<<T_change, Alice, P1>>),
        Line(<<T_add_birthday, Alice>>)}
  \cup {Line(<<T_add, Alice, p>>) : p \in {P1, BadPhone}}
  \cup {<<" ">> \o Line(<<T_ADD, Bob>>) \o <<" ", " ">> \o P1}
  \cup {Line(<<T_change, Alice, P1, n>>) : n \in {P2, BadPhone}}
  \cup {Line(<<T_change, Alice, P2, P2>>), Line(<<T_change, Carol, P1, P2>>)}
  \cup {Line(<<c, n>>) : c \in {T_phone, T_show_birthday}, n \in {Alice, Carol}}
  \cup {Line(<<T_add_birthday, Alice, d>>) : d \in {D_Feb29, D_Jun15, D_Bad}}
  \cup {Line(<<T_add_birthday, Carol, D_Jun15>>)}

\* the dates the clock shows when birthdays is typed
Todays == {<<2023, 6, 10>>, <<2024, 2, 25>>}

-----------------------------------------------------------------------------
(* The program: main() *)

\* line 248 for each line that can be typed
Parsed == [line \in Lines |-> parse_input(line)]

Init ==
  /\ book = <<>>
  /\ file = NoFile
  /\ pc = "start"
  /\ user_input = <<>>
  /\ out = NoReply
  /\ today = <<>>
  /\ reads = 0
  /\ writes = 0
  /\ snapshot = <<>>
  /\ session = 1

\* line 243-244: book = load_data(); print the welcome
main_load ==
  /\ pc = "start"
  /\ book' = load_data(file)
  /\ reads' = reads + 1
  /\ out' = Reply("Welcome to the assistant bot!", <<>>, <<>>)
  /\ pc' = "loop"
  /\ UNCHANGED <<file, user_input, today, writes, snapshot, session>>

\* line 248: parse_input raises, nothing catches it, the process dies
main_parse_error(line) ==
  /\ pc = "loop"
  /\ Parsed[line].exc # ""
  /\ user_input' = line
  /\ pc' = "crashed"
  /\ today' = <<>>
  /\ UNCHANGED <<book, file, out, reads, writes, snapshot, session>>

\* lines 250-253: close and exit
main_close(line) ==
  /\ pc = "loop"
  /\ Parsed[line].exc = ""
  /\ Parsed[line].cmd \in {T_close, T_exit}
  /\ user_input' = line
  /\ out' = Reply("Good bye!", <<>>, <<>>)
  /\ file' = save_data(book)
  /\ writes' = writes + 1
  /\ snapshot' = book
  /\ pc' = "done"
  /\ today' = <<>>
  /\ UNCHANGED <<book, reads, session>>

\* a branch of the loop that also saves the book after the command
Dispatch_autosave(line, command, res) ==
  /\ pc = "loop"
  /\ Parsed[line].exc = ""
  /\ Parsed[line].cmd = command
  /\ user_input' = line
  /\ book' = res.book
  /\ out' = input_error(res)
  /\ file' = save_data(res.book)
  /\ UNCHANGED <<pc, reads, writes, snapshot, session>>

\* a branch of the loop that prints what a handler returns
Dispatch(line, command, res) ==
  /\ pc = "loop"
  /\ Parsed[line].exc = ""
  /\ Parsed[line].cmd = command
  /\ user_input' = line
  /\ book' = res.book
  /\ out' = input_error(res)
  /\ UNCHANGED <<file, pc, reads, writes, snapshot, session>>

\* lines 255-256
main_hello(line) ==
  /\ Dispatch(line, T_hello, Return(book, Reply("How can I help you?", <<>>, <<>>)))
  /\ today' = <<>>

\* lines 258-259; a phone list is let grow to MaxPhones
main_add(line) ==
  /\ LET args == Parsed[line].args IN
       (Len(args) >= 2 /\ find(book, args[1]) # 0 /\ PhoneValid(args[2]))
         => Len(book[find(book, args[1])].phones) < MaxPhones
  /\ Dispatch(line, T_add, add_contact(Parsed[line].args, book))
  /\ today' = <<>>

\* lines 261-262
main_change(line) ==
  /\ Dispatch(line, T_change, change_contact(Parsed[line].args, book))
  /\ today' = <<>>

\* lines 264-265
main_phone(line) ==
  /\ Dispatch(line, T_phone, show_phone(Parsed[line].args, book))
  /\ today' = <<>>

\* lines 267-268
main_all(line) ==
  /\ Dispatch(line, T_all, show_all(book))
  /\ today' = <<>>

\* lines 270-271
main_add_birthday(line) ==
  /\ Dispatch(line, T_add_birthday, add_birthday(Parsed[line].args, book))
  /\ today' = <<>>

\* lines 273-274
main_show_birthday(line) ==
  /\ Dispatch(line, T_show_birthday, show_birthday(Parsed[line].args, book))
  /\ today' = <<>>

\* lines 276-277; tdy is what datetime.today().date() returns
main_birthdays(line, tdy) ==
  /\ Dispatch(line, T_birthdays, birthdays(Parsed[line].args, book, tdy))
  /\ today' = tdy

Commands == {T_close, T_exit, T_hello, T_add, T_change, T_phone, T_all,
             T_add_birthday, T_show_birthday, T_birthdays}

\* lines 285-286
main_invalid(line) ==
  /\ Parsed[line].cmd \notin Commands
  /\ Dispatch(line, Parsed[line].cmd,
              Return(book, Reply("Invalid command.", <<>>, <<>>)))
  /\ today' = <<>>

\* the program is run again after it ended
main_restart ==
  /\ pc \in {"done", "crashed"}
  /\ session < MaxSessions
  /\ session' = session + 1
  /\ pc' = "start"
  /\ book' = <<>>
  /\ user_input' = <<>>
  /\ out' = NoReply
  /\ today' = <<>>
  /\ reads' = 0
  /\ writes' = 0
  /\ UNCHANGED <<file, snapshot>>

Next ==
  \/ main_load
  \/ \E line \in Lines : main_parse_error(line)
  \/ \E line \in Lines : main_close(line)
  \/ \E line \in Lines : main_hello(line)
  \/ \E line \in Lines : main_add(line)
  \/ \E line \in Lines : main_change(line)
  \/ \E line \in Lines : main_phone(line)
  \/ \E line \in Lines : main_all(line)
  \/ \E line \in Lines : main_add_birthday(line)
  \/ \E line \in Lines : main_show_birthday(line)
  \/ \E line \in Lines : \E tdy \in Todays : main_birthdays(line, tdy)
  \/ \E line \in Lines : main_invalid(line)

Spec == Init /\ [][Next]_vars

-----------------------------------------------------------------------------
(* Sessions: the program is run, ends, and is run again *)

LinesS ==
  {<<>>, Line(<<T_close>>), Line(<<T_Exit>>), Line(<<T_all>>),
   Line(<<T_add, Alice, P1>>),
   <<" ">> \o Line(<<T_ADD, Bob>>) \o <<" ", " ">> \o P1,
   Line(<<T_change, Alice, P1, P2>>), Line(<<T_change, Alice, P1, BadPhone>>),
   Line(<<T_add_birthday, Alice, D_Feb29>>),
   Line(<<T_add_birthday, Alice, D_Jun15>>)}

NextS ==
  \/ main_load
  \/ \E line \in LinesS : main_parse_error(line)
  \/ \E line \in LinesS : main_close(line)
  \/ \E line \in LinesS : main_add(line)
  \/ \E line \in LinesS : main_change(line)
  \/ \E line \in LinesS : main_all(line)
  \/ \E line \in LinesS : main_add_birthday(line)
  \/ main_restart

SpecSessions == Init /\ [][NextS]_vars

-----------------------------------------------------------------------------
(* The birthdays query on its own: a process that has loaded a book and is *)
(* asked for the upcoming birthdays on some day                            *)

NamesB == {Alice, Bob, Carol}

BirthdaysB == {<<2024, 2, 29>>, <<1990, 6, 10>>, <<1985, 6, 17>>,
               <<2000, 6, 18>>, <<2001, 1, 2>>, <<1999, 12, 31>>}

TodaysB == {<<2024, 6, 10>>, <<2023, 6, 10>>, <<2024, 12, 30>>,
            <<2023, 2, 22>>, <<2024, 2, 22>>}

RecordsB == {[name |-> n, phones |-> <<P1>>, birthday |-> d] :
               n \in NamesB, d \in BirthdaysB \cup {<<>>}}

BooksB == {b \in UNION {[1..n -> RecordsB] : n \in 0..MaxBook} :
             \A i, j \in 1..Len(b) : i # j => b[i].name # b[j].name}

InitB ==
  /\ book \in BooksB
  /\ file = save_data(book)
  /\ snapshot = book
  /\ pc = "loop"
  /\ user_input = <<>>
  /\ out = Reply("Welcome to the assistant bot!", <<>>, <<>>)
  /\ today = <<>>
  /\ reads = 1
  /\ writes = 0
  /\ session = 1

NextB == \E tdy \in TodaysB : main_birthdays(Line(<<T_birthdays>>), tdy)

SpecBirthdays == InitB /\ [][NextB]_vars

-----------------------------------------------------------------------------
(* Properties *)

\* the command and arguments of the line read last
LastCmd == parse_input(user_input).cmd

LastArgs == parse_input(user_input).args

ErrorMsgs == {MsgIndexError, MsgValueError, MsgKeyError}

HasFeb29(b) == \E i \in 1..Len(b) :
  b[i].birthday # <<>> /\ b[i].birthday[2] = 2 /\ b[i].birthday[3] = 29

RECURSIVE DaysBefore(_, _)
\* the days of year y in the months before month m
DaysBefore(y, m) == IF m = 1 THEN 0
                    ELSE DaysBefore(y, m - 1) + DaysInMonth(y, m - 1)

DayOfYear(dt) == DaysBefore(dt[1], dt[2]) + dt[3]

\* the birthday's day and month exist in the year of tdy and fall on one of
\* the days tdy, tdy + 1, ..., tdy + days
Upcoming(rec, tdy, days) ==
  /\ rec.birthday # <<>>
  /\ DateValid(tdy[1], rec.birthday[2], rec.birthday[3])
  /\ DayOfYear(<<tdy[1], rec.birthday[2], rec.birthday[3]>>) - DayOfYear(tdy)
       \in 0..days

ExpectedUpcoming(b, tdy) == SelectSeq(b, LAMBDA rec : Upcoming(rec, tdy, 7))

\* C1: every phone stored in every Record is a string of exactly 10 digits
C1_AllPhonesValid ==
  \A i \in 1..Len(book) : \A j \in 1..Len(book[i].phones) :
    PhoneValid(book[i].phones[j])

\* C2: the loop ends only on close or exit; no input line makes an error
\* escape the loop
C2_LoopEndsOnlyOnClose ==
  pc \in {"done", "crashed"} =>
    /\ pc = "done"
    /\ parse_input(user_input).exc = ""
    /\ LastCmd \in {T_close, T_exit}

\* C3: change <name> <old> <new> on a Record without <old> is answered with
\* the not-found message and leaves the phone list as it was; with <old>
\* present only its first occurrence is replaced, in place
C3_EditPhone ==
  [][\A line \in Lines :
       LET p == Parsed[line]
           k == find(book, p.args[1])
           i == FirstPhone(book[k], p.args[2])
       IN (/\ pc = "loop" /\ user_input' = line /\ p.exc = ""
           /\ p.cmd = T_change /\ Len(p.args) = 3 /\ k # 0)
          => IF i = 0
               THEN out'.msg = MsgKeyError /\ book' = book
               ELSE /\ Len(book') = Len(book)
                    /\ \A r \in 1..Len(book) : r # k => book'[r] = book[r]
                    /\ book'[k].name = book[k].name
                    /\ book'[k].birthday = book[k].birthday
                    /\ Len(book'[k].phones) = Len(book[k].phones)
                    /\ \A j \in 1..Len(book[k].phones) :
                         book'[k].phones[j] =
                           IF j = i THEN p.args[3] ELSE book[k].phones[j]]_vars

\* C4 as claimed: whatever the book and the day, birthdays answers with
\* exactly the Records whose birthday falls in [today, today + 7], in
\* insertion order
C4_UpcomingAlways ==
  today # <<>> =>
    /\ out.msg \notin ErrorMsgs
    /\ out.recs = ExpectedUpcoming(book, today)

\* C4 amended: the same, when today's year is a leap year or no Record has
\* a birthday on 29 February
C4_Upcoming ==
  (today # <<>> /\ (IsLeap(today[1]) \/ ~HasFeb29(book))) =>
    /\ out.msg \notin ErrorMsgs
    /\ out.recs = ExpectedUpcoming(book, today)

\* on 30 December a birthday on 31 December is reported and one on
\* 2 January is not
C4_Witness ==
  /\ today = <<2024, 12, 30>>
  /\ Len(book) = 2
  /\ book[1].birthday = <<2001, 1, 2>>
  /\ book[2].birthday = <<1999, 12, 31>>
  /\ out.recs = <<book[2]>>

\* C5: add <name> <phone> with a valid phone creates the Record with that
\* one phone ("Contact added.") or appends the phone to the Record that is
\* there ("Contact updated."); everything else in the book stays
C5_Add ==
  [][\A line \in Lines :
       LET p == Parsed[line]
           k == find(book, p.args[1])
       IN (/\ pc = "loop" /\ user_input' = line /\ p.exc = ""
           /\ p.cmd = T_add /\ Len(p.args) >= 2 /\ PhoneValid(p.args[2]))
          => IF k = 0
               THEN /\ out'.msg = "Contact added."
                    /\ book' = Append(book, [name |-> p.args[1],
                                             phones |-> <<p.args[2]>>,
                                             birthday |-> <<>>])
               ELSE /\ out'.msg = "Contact updated."
                    /\ Len(book') = Len(book)
                    /\ \A r \in 1..Len(book) : r # k => book'[r] = book[r]
                    /\ book'[k].name = book[k].name
                    /\ book'[k].birthday = book[k].birthday
                    /\ book'[k].phones = Append(book[k].phones, p.args[2])]_vars

\* a second phone was added to Alice, who has a birthday, with Bob in the book
C5_Witness ==
  /\ pc = "loop"
  /\ LastCmd = T_add
  /\ out.msg = "Contact updated."
  /\ Len(book) = 2
  /\ \E k \in 1..2 : /\ book[k].name = Alice
                     /\ book[k].birthday # <<>>
                     /\ Len(book[k].phones) = 2
                     /\ book[k].phones[1] = P2

\* C6: a command with too few arguments is answered with the
\* argument-count message and leaves the book as it was
C6_TooFewArguments ==
  [][\A line \in Lines :
       LET p == Parsed[line]
       IN (/\ pc = "loop" /\ user_input' = line /\ p.exc = ""
           /\ \/ p.cmd = T_add /\ Len(p.args) < 2
              \/ p.cmd = T_change /\ Len(p.args) < 3
              \/ p.cmd \in {T_phone, T_show_birthday} /\ Len(p.args) < 1
              \/ p.cmd = T_add_birthday /\ Len(p.args) < 2)
          => out'.msg = MsgIndexError /\ book' = book]_vars

\* C7: the book that was saved is the book that loading the file gives,
\* and loading with no file gives an empty book
C7_RoundTrip ==
  /\ pc = "done" => load_data(file) = book
  /\ (pc = "loop" /\ out.msg = "Welcome to the assistant bot!" /\ ~file.exists)
       => book = <<>>

\* a book of two Records was saved: one with two different phones and a
\* birthday, one with no birthday
C7_Witness ==
  /\ pc = "done"
  /\ Len(book) = 2
  /\ \E k \in 1..2 : /\ book[k].birthday # <<>>
                     /\ Len(book[k].phones) = 2
                     /\ book[k].phones[1] # book[k].phones[2]
  /\ \E k \in 1..2 : book[k].birthday = <<>>

\* C8: a process reads the file once, before its first command, and writes
\* it at most once, on close or exit, with the book as it then stands; the
\* next process starts with that book
C8_Lifecycle ==
  /\ [](/\ pc = "start" => reads = 0 /\ writes = 0
        /\ pc \in {"loop", "crashed"} => reads = 1 /\ writes = 0
        /\ pc = "done" => reads = 1 /\ writes = 1)
  /\ [][/\ reads' > reads => pc = "start"
        /\ (writes' > writes \/ file' # file) =>
             /\ pc = "loop" /\ pc' = "done"
             /\ Parsed[user_input'].cmd \in {T_close, T_exit}
             /\ load_data(file') = book
             /\ snapshot' = book
        /\ (pc = "start" /\ pc' = "loop" /\ file.exists) => book' = snapshot]_vars

\* a second process has started with the book that the first one saved,
\* which is not empty
C8_Witness ==
  /\ session = 2
  /\ pc = "loop"
  /\ out.msg = "Welcome to the assistant bot!"
  /\ Len(book) = 2
  /\ book = snapshot

\* C9: in a year that is not a leap year, with a birthday on 29 February in
\* the book, birthdays gives no list, answers with the error message and
\* the loop goes on
C9_Feb29 ==
  (today # <<>> /\ ~IsLeap(today[1]) /\ HasFeb29(book)) =>
    /\ out.msg = MsgValueError
    /\ out.recs = <<>>
    /\ pc = "loop"

\* a Record with a birthday inside the window comes before the Record with
\* the birthday on 29 February
C9_Witness ==
  /\ today = <<2023, 6, 10>>
  /\ Len(book) = 2
  /\ book[1].birthday = <<1990, 6, 10>>
  /\ book[2].birthday = <<2024, 2, 29>>
  /\ out.msg = MsgValueError

\* C10: a command answered with an error message leaves the book as it was
C10_ErrorLeavesBook ==
  [][(pc = "loop" /\ out'.msg \in ErrorMsgs) => book' = book]_vars

====
